---- MODULE Spec2Model ----
(***************************************************************************)
(* Model of package cephfs (src/cephfs/cephfs.go): the Go binding that     *)
(* owns a native ceph_mount_info through a MountInfo handle, forwards the  *)
(* lifecycle and path operations to libcephfs, and marshals MDS commands.  *)
(*                                                                         *)
(* Every public operation is one action.  The events of the invocation     *)
(* (C.CString allocations, the foreign call and its return, the native     *)
(* allocations the call produced, copies and C.free calls) are recorded in *)
(* program order in `log`; what the operation handed back to its caller is *)
(* recorded in `result`.                                                   *)
(*                                                                         *)
(* libcephfs is the environment.  Its result code is chosen freely.  Its   *)
(* out-parameters follow the libcephfs convention (do_out_buffer): a       *)
(* buffer is malloc'ed exactly when its length is positive, and is NULL    *)
(* otherwise.  A call that is handed a context that was already released   *)
(* has undefined behaviour: it may abort the process or return any code.   *)
(***************************************************************************)
EXTENDS Integers, Sequences, FiniteSets

VARIABLES handle, native, conn, log, result, crashed

vars == <<handle, native, conn, log, result, crashed>>

(* ------------------------------ bounds -------------------------------- *)

\* result codes libcephfs may return: -MaxCode .. MaxCode
MaxCode == 1
\* longest output buffer / status string libcephfs produces
MaxLen == 1
\* longest argument vector handed to MdsCommand
MaxArgs == 2
\* number of native mount contexts libcephfs can allocate
MaxCtx == 1

Codes == (0 - MaxCode)..MaxCode
Bytes == 0..1
NUL == 0
NULL == 0
CIntMax == 2147483647

ByteSeqs(n) == UNION {[1..k -> Bytes] : k \in 0..n}

\* Go strings used as paths and client ids
Strings == {<<>>, <<1>>}
\* target specifications of MDS commands
MdsSpecs == {<<1>>}
\* the byte strings an argument vector is built from
ArgStrings == {<<1>>, <<1, 1>>}
ArgVectors == UNION {[1..k -> ArgStrings] : k \in 0..MaxArgs}
\* input buffers (a nil slice and an empty slice both convert to "")
InputBuffers == {<<>>, <<1>>}
\* mode / uid / gid values
Modes == {0}

Ctxs == 1..MaxCtx

(* --------------------------- conversions ------------------------------ *)

\* C.int(x) of a C.size_t: the low 32 bits, read as a signed integer
CInt(n) == IF n <= CIntMax THEN n ELSE n - CIntMax - CIntMax - 2

\* C.CString(s): a malloc'ed copy of the bytes of s followed by a NUL
CString(s) == s \o <<NUL>>

\* C.GoString(p): the bytes up to the first NUL
RECURSIVE GoString(_)
GoString(mem) ==
    IF mem = <<>> \/ Head(mem) = NUL THEN <<>>
    ELSE <<Head(mem)>> \o GoString(Tail(mem))

GoStringN_nulTerminated(mem, n) == GoString(mem)

\* C.GoStringN(p, n) and C.GoBytes(p, n): exactly n bytes starting at p
GoStringN(mem, n) == SubSeq(mem, 1, n)

GoBytes(mem, n) == SubSeq(mem, 1, n)

(* ----------------------------- errors --------------------------------- *)

NoError == [isErr |-> FALSE, code |-> 0]

CephFSError(e) == [isErr |-> TRUE, code |-> e]

getError_negativeOnly(e) == IF e >= 0 THEN NoError ELSE CephFSError(e)

getError(e) == IF e = 0 THEN NoError ELSE CephFSError(e)

(* ----------------------------- handles -------------------------------- *)

NoHandle == [valid |-> FALSE, mount |-> NULL]

MountInfo(ctx) == [valid |-> TRUE, mount |-> ctx]

ConnInit == [cluster |-> 1, open |-> TRUE]

(* ------------------------------ events -------------------------------- *)

Ev(ev, addr, fn, ctx, ret, stale, mem) ==
    [ev |-> ev, addr |-> addr, fn |-> fn, ctx |-> ctx, ret |-> ret,
     stale |-> stale, mem |-> mem]

Malloc(a, mem) == Ev("malloc", a, "", NULL, 0, FALSE, mem)
Free(a) == Ev("free", a, "", NULL, 0, FALSE, <<>>)
Copy(a, n) == Ev("copy", a, "", NULL, n, FALSE, <<>>)
NativeAlloc(a, mem) == Ev("native_alloc", a, "", NULL, 0, FALSE, mem)
CallEv(fn, ctx, stale) == Ev("call", NULL, fn, ctx, 0, stale, <<>>)
ReturnEv(fn, ret) == Ev("return", NULL, fn, NULL, ret, FALSE, <<>>)

(* ------------------------- the foreign layer -------------------------- *)

IsStale(ctx) == ctx \in Ctxs /\ native[ctx] = "released"

\* what a foreign call may do: return a code, or (undefined behaviour on a
\* released context) abort the process
Outcomes(ctx) ==
    [crash : {FALSE}, ret : Codes]
        \cup (IF IsStale(ctx) THEN [crash : {TRUE}, ret : {0}] ELSE {})

\* the events of one foreign call on a mount context
Foreign(fn, ctx, out) ==
    IF out.crash THEN <<CallEv(fn, ctx, IsStale(ctx))>>
    ELSE <<CallEv(fn, ctx, IsStale(ctx)), ReturnEv(fn, out.ret)>>

\* the native context table after a foreign call on ctx
NativeAfter(fn, ctx, out) ==
    IF out.crash \/ ctx \notin Ctxs \/ IsStale(ctx) \/ out.ret # 0 THEN native
    ELSE IF fn = "ceph_mount" THEN [native EXCEPT ![ctx] = "mounted"]
    ELSE IF fn = "ceph_unmount" THEN [native EXCEPT ![ctx] = "allocated"]
    ELSE IF fn = "ceph_release" THEN [native EXCEPT ![ctx] = "released"]
    ELSE native

FreeCtxs == {c \in Ctxs : native[c] = "unallocated"}

NextCtx == CHOOSE c \in FreeCtxs : \A d \in FreeCtxs : c <= d

\* out-parameter convention of libcephfs: malloc'ed iff the length is positive
OutParam(a, mem) ==
    IF Len(mem) > 0 THEN [ptr |-> a, mem |-> mem, len |-> Len(mem)]
    ELSE [ptr |-> NULL, mem |-> <<>>, len |-> 0]

NoReport ==
    [ret |-> 0, outbuf |-> OutParam(NULL, <<>>), outs |-> OutParam(NULL, <<>>)]

(* ------------------------------ results ------------------------------- *)

NoResult ==
    [op |-> "none", status |-> "returned", ctx |-> NULL, ret |-> 0,
     err |-> NoError, handle |-> NoHandle, buffer |-> <<>>, info |-> <<>>,
     spec |-> <<>>, args |-> <<>>, input |-> <<>>, report |-> NoReport,
     conn |-> ConnInit]

Init ==
    /\ handle = NoHandle
    /\ native = [c \in Ctxs |-> "unallocated"]
    /\ conn = ConnInit
    /\ log = <<>>
    /\ result = NoResult
    /\ crashed = FALSE

(* --------------------------- construction ----------------------------- *)

\* the caller is between two invocations
Ready == ~crashed /\ result.op = "none"

CanCreate(ret) == Ready /\ (ret = 0 => FreeCtxs # {})

Created(op, run, ret) ==
    [NoResult EXCEPT !.op = op, !.ret = ret, !.err = run.err,
                     !.handle = run.handle]

createMount_handleOnFailure(ret) ==
    LET call == <<CallEv("ceph_create", NULL, FALSE),
                  ReturnEv("ceph_create", ret)>>
    IN  IF ret # 0
        THEN [log |-> call, handle |-> MountInfo(NULL), err |-> getError(ret)]
        ELSE [log |-> call, handle |-> MountInfo(NextCtx), err |-> NoError]

\* createMount(id): ceph_create fills mount.mount only when it returns 0
createMount(ret) ==
    LET call == <<CallEv("ceph_create", NULL, FALSE),
                  ReturnEv("ceph_create", ret)>>
    IN  IF ret # 0
        THEN [log |-> call, handle |-> NoHandle, err |-> getError(ret)]
        ELSE [log |-> call, handle |-> MountInfo(NextCtx), err |-> NoError]

\* the caller keeps the handle it was given; a nil handle is not adopted
Adopt(run, ret) ==
    /\ handle' = IF run.handle.valid THEN run.handle ELSE handle
    /\ native' = IF ret = 0 THEN [native EXCEPT ![NextCtx] = "allocated"]
                 ELSE native
    /\ crashed' = FALSE

CreateMount ==
    \E ret \in Codes :
        /\ CanCreate(ret)
        /\ LET run == createMount(ret)
           IN  /\ log' = run.log
               /\ result' = Created("CreateMount", run, ret)
               /\ Adopt(run, ret)
        /\ UNCHANGED conn

CreateMountWithId_freeBeforeCall ==
    \E id \in Strings, ret \in Codes :
        /\ CanCreate(ret)
        /\ LET cid == 1
               run == createMount(ret)
           IN  /\ log' = <<Malloc(cid, CString(id)), Free(cid)>> \o run.log
               /\ result' = Created("CreateMountWithId", run, ret)
               /\ Adopt(run, ret)
        /\ UNCHANGED conn

CreateMountWithId ==
    \E id \in Strings, ret \in Codes :
        /\ CanCreate(ret)
        /\ LET cid == 1
               run == createMount(ret)
           IN  /\ log' = <<Malloc(cid, CString(id))>> \o run.log
                         \o <<Free(cid)>>
               /\ result' = Created("CreateMountWithId", run, ret)
               /\ Adopt(run, ret)
        /\ UNCHANGED conn

CreateFromRados ==
    \E ret \in Codes :
        /\ CanCreate(ret)
        /\ conn.open
        /\ LET call == <<CallEv("ceph_create_from_rados", NULL, FALSE),
                         ReturnEv("ceph_create_from_rados", ret)>>
               run == IF ret # 0
                      THEN [log |-> call, handle |-> NoHandle,
                            err |-> getError(ret)]
                      ELSE [log |-> call, handle |-> MountInfo(NextCtx),
                            err |-> NoError]
           IN  /\ log' = run.log
               /\ result' = [Created("CreateFromRados", run, ret)
                                EXCEPT !.conn = conn]
               /\ Adopt(run, ret)
        /\ conn' = conn

(* ------------------------ lifecycle operations ------------------------ *)

CanInvoke == Ready /\ handle.valid

Returned(op, ctx, out, err) ==
    [NoResult EXCEPT !.op = op,
                     !.status = IF out.crash THEN "crashed" ELSE "returned",
                     !.ctx = ctx, !.ret = out.ret,
                     !.err = IF out.crash THEN NoError ELSE err]

\* ret := C.fn(mount.mount); return getError(ret)
Forward(op, fn) ==
    \E out \in Outcomes(handle.mount) :
        /\ native' = NativeAfter(fn, handle.mount, out)
        /\ log' = Foreign(fn, handle.mount, out)
        /\ result' = Returned(op, handle.mount, out, getError(out.ret))
        /\ crashed' = out.crash
        /\ UNCHANGED <<handle, conn>>

ReadDefaultConfigFile == CanInvoke /\ Forward("ReadDefaultConfigFile", "ceph_conf_read_file")

Mount_releaseOnFailure ==
    /\ CanInvoke
    /\ \E out \in Outcomes(handle.mount) :
        /\ native' = IF ~out.crash /\ out.ret # 0 /\ handle.mount \in Ctxs
                     THEN [native EXCEPT ![handle.mount] = "released"]
                     ELSE NativeAfter("ceph_mount", handle.mount, out)
        /\ log' = Foreign("ceph_mount", handle.mount, out)
        /\ result' = Returned("Mount", handle.mount, out, getError(out.ret))
        /\ crashed' = out.crash
        /\ UNCHANGED <<handle, conn>>

Mount == CanInvoke /\ Forward("Mount", "ceph_mount")

Unmount == CanInvoke /\ Forward("Unmount", "ceph_unmount")

Release == CanInvoke /\ Forward("Release", "ceph_release")

SyncFs == CanInvoke /\ Forward("SyncFs", "ceph_sync_fs")

(* --------------------------- path operations -------------------------- *)

\* cPath := C.CString(path); defer C.free(cPath); ret := C.fn(mount.mount, cPath, ...)
ForwardPath(op, fn, path) ==
    \E out \in Outcomes(handle.mount) :
        LET cPath == 1
        IN  /\ native' = NativeAfter(fn, handle.mount, out)
            /\ log' = <<Malloc(cPath, CString(path))>>
                      \o Foreign(fn, handle.mount, out)
                      \o (IF out.crash THEN <<>> ELSE <<Free(cPath)>>)
            /\ result' = Returned(op, handle.mount, out, getError(out.ret))
            /\ crashed' = out.crash
            /\ UNCHANGED <<handle, conn>>

ChangeDir == CanInvoke /\ \E path \in Strings : ForwardPath("ChangeDir", "ceph_chdir", path)

MakeDir == CanInvoke /\ \E path \in Strings, mode \in Modes : ForwardPath("MakeDir", "ceph_mkdir", path)

RemoveDir == CanInvoke /\ \E path \in Strings : ForwardPath("RemoveDir", "ceph_rmdir", path)

Chmod == CanInvoke /\ \E path \in Strings, mode \in Modes : ForwardPath("Chmod", "ceph_chmod", path)

Chown == CanInvoke /\ \E path \in Strings, user \in Modes, group \in Modes : ForwardPath("Chown", "ceph_chown", path)

(* --------------------------- MDS commands ----------------------------- *)

MdsOutcomes(ctx) ==
    [crash : {FALSE}, ret : Codes, outbuf : ByteSeqs(MaxLen),
     outs : ByteSeqs(MaxLen)]
        \cup (IF IsStale(ctx)
              THEN [crash : {TRUE}, ret : {0}, outbuf : {<<>>}, outs : {<<>>}]
              ELSE {})

\* spec, argv[0..argc-1] and inbuf, allocated in this order
transientAllocs(mdsSpec, args, inputBuffer) ==
    LET argc == Len(args)
    IN  <<Malloc(1, CString(mdsSpec))>>
        \o [i \in 1..argc |-> Malloc(1 + i, CString(args[i]))]
        \o <<Malloc(argc + 2, CString(inputBuffer))>>

deferredFrees_leakLastArg(argc) ==
    <<Free(argc + 2)>>
    \o [i \in 1..(argc - 1) |-> Free(1 + i)]
    \o <<Free(1)>>

\* the deferred calls, run last-in first-out: inbuf, the argv loop, spec
deferredFrees(argc) ==
    <<Free(argc + 2)>>
    \o [i \in 1..argc |-> Free(1 + i)]
    \o <<Free(1)>>

\* what ceph_mds_command left in outbuf/outbuflen and outs/outslen
ForeignReport(argc, out) ==
    [ret |-> out.ret,
     outbuf |-> OutParam(argc + 4, out.outbuf),
     outs |-> OutParam(argc + 3, out.outs)]

NativeAllocs(report) ==
    (IF report.outbuf.ptr # NULL
     THEN <<NativeAlloc(report.outbuf.ptr, report.outbuf.mem)>> ELSE <<>>)
    \o (IF report.outs.ptr # NULL
        THEN <<NativeAlloc(report.outs.ptr, report.outs.mem)>> ELSE <<>>)

copyOutputs_onlyOnSuccess(report) ==
    LET outslen == report.outs.len
        outbuflen == report.outbuf.len
        hasInfo == outslen > 0
        hasBuffer == outbuflen > 0 /\ report.ret = 0
    IN  [info |-> IF hasInfo THEN GoStringN(report.outs.mem, CInt(outslen))
                  ELSE <<>>,
         buffer |-> IF hasBuffer
                    THEN GoBytes(report.outbuf.mem, CInt(outbuflen))
                    ELSE <<>>,
         log |-> (IF hasInfo
                  THEN <<Copy(report.outs.ptr, CInt(outslen)),
                         Free(report.outs.ptr)>>
                  ELSE <<>>)
                 \o (IF hasBuffer
                     THEN <<Copy(report.outbuf.ptr, CInt(outbuflen)),
                            Free(report.outbuf.ptr)>>
                     ELSE <<>>)]

\* if outslen > 0 {copy; free}; if outbuflen > 0 {copy; free}
copyOutputs(report) ==
    LET outslen == report.outs.len
        outbuflen == report.outbuf.len
        hasInfo == outslen > 0
        hasBuffer == outbuflen > 0
    IN  [info |-> IF hasInfo THEN GoStringN(report.outs.mem, CInt(outslen))
                  ELSE <<>>,
         buffer |-> IF hasBuffer
                    THEN GoBytes(report.outbuf.mem, CInt(outbuflen))
                    ELSE <<>>,
         log |-> (IF hasInfo
                  THEN <<Copy(report.outs.ptr, CInt(outslen)),
                         Free(report.outs.ptr)>>
                  ELSE <<>>)
                 \o (IF hasBuffer
                     THEN <<Copy(report.outbuf.ptr, CInt(outbuflen)),
                            Free(report.outbuf.ptr)>>
                     ELSE <<>>)]

\* one run of mdsCommand; &argv[0] panics (index out of range) when argc = 0,
\* after inbuf was allocated and before the foreign call
mdsCommand(ctx, mdsSpec, args, inputBuffer, out) ==
    LET argc == Len(args)
        allocs == transientAllocs(mdsSpec, args, inputBuffer)
        report == ForeignReport(argc, out)
        copied == copyOutputs(report)
        base == [NoResult EXCEPT !.ctx = ctx, !.spec = mdsSpec,
                                 !.args = args, !.input = inputBuffer]
    IN  IF argc = 0
        THEN [log |-> allocs \o deferredFrees(argc),
              result |-> [base EXCEPT !.status = "panicked"]]
        ELSE IF out.crash
        THEN [log |-> allocs \o <<CallEv("ceph_mds_command", ctx, IsStale(ctx))>>,
              result |-> [base EXCEPT !.status = "crashed"]]
        ELSE [log |-> allocs
                      \o <<CallEv("ceph_mds_command", ctx, IsStale(ctx))>>
                      \o NativeAllocs(report)
                      \o <<ReturnEv("ceph_mds_command", out.ret)>>
                      \o copied.log
                      \o deferredFrees(argc),
              result |-> [base EXCEPT
                            !.ret = out.ret,
                            !.report = report,
                            !.info = copied.info,
                            !.buffer = IF out.ret # 0 THEN <<>>
                                       ELSE copied.buffer,
                            !.err = getError(out.ret)]]

MdsCommand ==
    /\ CanInvoke
    /\ \E mdsSpec \in MdsSpecs, args \in ArgVectors,
          out \in MdsOutcomes(handle.mount) :
        LET run == mdsCommand(handle.mount, mdsSpec, args, <<>>, out)
        IN  /\ log' = run.log
            /\ result' = [run.result EXCEPT !.op = "MdsCommand"]
            /\ crashed' = (run.result.status = "crashed")
            /\ native' = NativeAfter("ceph_mds_command", handle.mount, out)
            /\ UNCHANGED <<handle, conn>>

MdsCommandWithInputBuffer ==
    /\ CanInvoke
    /\ \E mdsSpec \in MdsSpecs, args \in ArgVectors,
          inputBuffer \in InputBuffers, out \in MdsOutcomes(handle.mount) :
        LET run == mdsCommand(handle.mount, mdsSpec, args, inputBuffer, out)
        IN  /\ log' = run.log
            /\ result' = [run.result EXCEPT !.op = "MdsCommandWithInputBuffer"]
            /\ crashed' = (run.result.status = "crashed")
            /\ native' = NativeAfter("ceph_mds_command", handle.mount, out)
            /\ UNCHANGED <<handle, conn>>

(* ------------------------------ caller -------------------------------- *)

\* the caller has taken the result of the invocation and goes on; the
\* invocation's allocations and results are no longer looked at
Resume ==
    /\ ~crashed
    /\ result.op # "none"
    /\ log' = <<>>
    /\ result' = NoResult
    /\ UNCHANGED <<handle, native, conn, crashed>>

(* --------------------------- specification ---------------------------- *)

Next ==
    \/ CreateMount
    \/ CreateMountWithId
    \/ CreateFromRados
    \/ ReadDefaultConfigFile
    \/ Mount
    \/ Unmount
    \/ Release
    \/ SyncFs
    \/ ChangeDir
    \/ MakeDir
    \/ RemoveDir
    \/ Chmod
    \/ Chown
    \/ MdsCommand
    \/ MdsCommandWithInputBuffer
    \/ Resume

Spec == Init /\ [][Next]_vars

(* ------------------------- reading the log ---------------------------- *)

Events(kind) == {i \in DOMAIN log : log[i].ev = kind}

EventsOn(kind, a) == {i \in Events(kind) : log[i].addr = a}

Transients == {log[i].addr : i \in Events("malloc")}

AfterReturn(k) == \E r \in Events("return") : r < k

IsMds == result.op \in {"MdsCommand", "MdsCommandWithInputBuffer"}

PathOps == {"ChangeDir", "MakeDir", "RemoveDir", "Chmod", "Chown"}

CreateOps == {"CreateMount", "CreateMountWithId", "CreateFromRados"}

ErrOps ==
    {"ReadDefaultConfigFile", "Mount", "Unmount", "Release", "SyncFs",
     "MdsCommand", "MdsCommandWithInputBuffer"} \cup PathOps

(* ------------------------------- claims ------------------------------- *)

\* C1: an MDS command with N >= 1 arguments makes exactly N+2 transient
\* allocations (target, the arguments in order, the input buffer); none is
\* freed before ceph_mds_command has returned, and once mdsCommand has
\* returned each was freed exactly once, whatever the result code.
C1_TransientAllocations ==
    (IsMds /\ Len(result.args) >= 1) =>
        LET N == Len(result.args)
        IN  /\ Events("malloc") = 1..(N + 2)
            /\ Cardinality(Transients) = N + 2
            /\ log[1].mem = CString(result.spec)
            /\ \A i \in 1..N : log[i + 1].mem = CString(result.args[i])
            /\ log[N + 2].mem = CString(result.input)
            /\ \A a \in Transients : \A k \in EventsOn("free", a) : AfterReturn(k)
            /\ result.status = "returned" =>
                   \A a \in Transients : Cardinality(EventsOn("free", a)) = 1

C1_Witness ==
    /\ IsMds
    /\ result.status = "returned"
    /\ Len(result.args) = 2
    /\ result.args[1] # result.args[2]
    /\ result.ret # 0
    /\ Cardinality(Events("free") \cap {k \in DOMAIN log : log[k].addr \in Transients}) = 4

\* C2: after an MDS command has returned, every allocation the foreign call
\* produced (output buffer, status string) was copied in full and then freed
\* exactly once, the copy before the free, whatever the result code.
C2_NativeOutputsReclaimed ==
    (IsMds /\ result.status = "returned") =>
        /\ {log[i].addr : i \in Events("native_alloc")}
               = {result.report.outbuf.ptr, result.report.outs.ptr} \ {NULL}
        /\ \A i \in Events("native_alloc") :
               LET a == log[i].addr
               IN  /\ Cardinality(EventsOn("copy", a)) = 1
                   /\ Cardinality(EventsOn("free", a)) = 1
                   /\ \A c \in EventsOn("copy", a) :
                          /\ AfterReturn(c)
                          /\ log[c].ret = Len(log[i].mem)
                          /\ \A f \in EventsOn("free", a) : c < f

C2_Witness ==
    /\ IsMds
    /\ result.status = "returned"
    /\ result.ret # 0
    /\ result.report.outbuf.ptr # NULL
    /\ result.report.outs.ptr # NULL
    /\ EventsOn("free", result.report.outbuf.ptr) # {}
    /\ EventsOn("free", result.report.outs.ptr) # {}

\* C3: an MDS command with an empty argument vector is either rejected with
\* a local error without the foreign call, or passes a zero-length array to
\* the foreign call; either way it returns normally with every transient
\* allocation released.
C3_EmptyArgsPolicy ==
    (IsMds /\ Len(result.args) = 0) =>
        /\ result.status = "returned"
        /\ \/ Events("call") = {} /\ result.err.isErr
           \/ Events("call") # {}
        /\ \A a \in Transients : Cardinality(EventsOn("free", a)) = 1

\* C4: the info string is the status string of exactly the reported length
\* on success and on failure; on ret = 0 the output is the boundary's bytes
\* of exactly the reported length and there is no error; on ret # 0 the
\* error carries ret; a NULL out-pointer is never read.
C4_ResultFromReport ==
    (IsMds /\ result.status = "returned") =>
        LET rp == result.report
        IN  /\ result.info = rp.outs.mem
            /\ Len(result.info) = rp.outs.len
            /\ result.ret = 0 =>
                   /\ result.buffer = rp.outbuf.mem
                   /\ Len(result.buffer) = rp.outbuf.len
                   /\ ~result.err.isErr
            /\ result.ret # 0 => result.err = CephFSError(result.ret)
            /\ \A c \in Events("copy") : log[c].addr # NULL

C4_Witness ==
    /\ IsMds
    /\ result.status = "returned"
    /\ result.ret # 0
    /\ result.report.outs.len > 0
    /\ NUL \in {result.info[i] : i \in DOMAIN result.info}
    /\ result.report.outbuf.len = 0
    /\ result.err.isErr

\* C5: after Release has returned the handle no longer refers to the
\* released context, so a released context is never handed to the foreign
\* layer again (and so is never released twice).
C5_ReleaseInvalidates ==
    /\ handle.valid => ~IsStale(handle.mount)
    /\ \A i \in Events("call") : ~log[i].stale

\* C6: an operation that marshals one string allocates exactly one
\* transient string, does not free it before the foreign call has returned,
\* and has freed it exactly once when it returns, on success and on failure.
C6_OneTransientString ==
    (result.op \in PathOps \cup {"CreateMountWithId"}) =>
        /\ Events("malloc") = {1}
        /\ \A k \in EventsOn("free", log[1].addr) : AfterReturn(k)
        /\ result.status = "returned" =>
               Cardinality(EventsOn("free", log[1].addr)) = 1
        /\ Events("free") \subseteq EventsOn("free", log[1].addr)

C6_Witness ==
    /\ result.op = "Chown"
    /\ result.status = "returned"
    /\ result.ret # 0
    /\ Events("malloc") = {1}
    /\ Events("free") = {Len(log)}

\* C7: the error handed back for a result code c is absent when c = 0 and
\* otherwise is a CephFSError whose code is c; no error value has code 0.
C7_ErrorDomain ==
    /\ \A c \in Codes :
           /\ c = 0 => getError(c) = NoError
           /\ c # 0 => getError(c).isErr /\ getError(c).code = c
    /\ (result.op # "none" /\ result.status = "returned") =>
           /\ result.ret = 0 => ~result.err.isErr
           /\ result.ret # 0 => result.err.isErr /\ result.err.code = result.ret
           /\ result.err.isErr => result.err.code # 0

C7_Witness ==
    /\ result.op = "SyncFs"
    /\ result.status = "returned"
    /\ result.ret > 0
    /\ result.err.isErr
    /\ result.err.code = result.ret

\* C8: a Mount or ReadDefaultConfigFile that returns non-zero leaves the
\* handle's native reference and the context's lifecycle state as they
\* were; a context becomes mounted only by a Mount that returned zero.
C8_FailureKeepsState ==
    [][/\ (/\ result'.op \in {"Mount", "ReadDefaultConfigFile"}
           /\ result'.status = "returned"
           /\ result'.ret # 0) => (handle' = handle /\ native' = native)
       /\ \A c \in Ctxs :
              (native'[c] = "mounted" /\ native[c] # "mounted") =>
                  /\ result'.op = "Mount"
                  /\ result'.ret = 0
                  /\ handle.mount = c]_vars

C8_Witness ==
    /\ result.op = "Mount"
    /\ result.status = "returned"
    /\ result.ret # 0
    /\ handle.valid
    /\ handle.mount \in Ctxs
    /\ native[handle.mount] = "mounted"

\* C9: every error-returning public operation issues exactly one foreign
\* call per invocation and returns an error exactly when that call's result
\* is non-zero, the error carrying that result.
C9_OneCallResultSurfaced ==
    (result.op \in ErrOps) =>
        /\ Cardinality(Events("call")) = 1
        /\ result.status = "returned" =>
               /\ result.err.isErr <=> result.ret # 0
               /\ result.err.isErr => result.err.code = result.ret
               /\ Cardinality(Events("return")) = 1

\* C10: a construction operation returns a handle exactly when the foreign
\* allocation returned zero: on non-zero no handle and an error carrying the
\* code, on zero a handle and no error; CreateFromRados leaves the cluster
\* connection as it was given.
C10_HandleIffZero ==
    (result.op \in CreateOps) =>
        /\ result.handle.valid <=> result.ret = 0
        /\ result.handle.valid <=> ~result.err.isErr
        /\ result.ret # 0 => result.err = CephFSError(result.ret)
        /\ result.ret = 0 =>
               /\ result.handle.mount \in Ctxs
               /\ handle = result.handle
        /\ Cardinality(Events("call")) = 1
        /\ result.op = "CreateFromRados" => conn = result.conn

C10_Witness ==
    /\ result.op = "CreateMountWithId"
    /\ result.ret # 0
    /\ ~result.handle.valid
    /\ result.err.isErr
    /\ result.err.code = result.ret

====
